---------------------------- MODULE Spec2Model ----------------------------
(***************************************************************************)
(* Model of src/api/main.py: the /api/check-tokens endpoint.               *)
(*                                                                         *)
(*   - TOKEN_BUCKETS, is_rate_limited, cleanup_token_buckets: the per-IP   *)
(*     fixed-window request counter and its sweep;                         *)
(*   - check_tokens: the handler.  Everything from its first line to the   *)
(*     `await asyncio.gather(...)` runs without a suspension point, so it  *)
(*     is one action (CheckTokens); the resumption after the await is a    *)
(*     second action (GatherDone);                                         *)
(*   - check_token: one asyncio task per scheduled token.  It runs from    *)
(*     `async with semaphore` to the suspension in `client.post` in one    *)
(*     step (TaskStart) and from the completion of the call to its return  *)
(*     in a second one (TaskFinish).                                       *)
(*                                                                         *)
(* Strings are sequences of characters, so that str.strip() is computed.   *)
(* The four configuration constants keep their names; their values are     *)
(* scaled down (the source has 60, 1000, 5 and 5000) so that windows       *)
(* elapse, counters fill and the semaphore runs out within the checked     *)
(* state space.                                                            *)
(***************************************************************************)
EXTENDS Integers, Sequences, FiniteSets, TLC

RATE_LIMIT_DURATION == 2

MAX_REQUESTS == 2

MAX_TOKENS_PER_REQUEST == 3

MAX_CONCURRENT_CONNECTIONS == 2

(***************************************************************************)
(* Bounds of the model.                                                    *)
(***************************************************************************)
\* concurrently executing requests the model keeps track of
NumSlots == 2

\* last value of the clock in the batch-validator specification
BatchMaxTime == 1

\* last value of the clock in the admission specification
AdmMaxTime == 5

\* last value of the clock in the two-request specification
ConcMaxTime == 2

VARIABLES now, TOKEN_BUCKETS, batches

(***************************************************************************)
(* History variables; no action reads them to decide what the program does.*)
(*   admitted[ip]: the times at which requests of ip were admitted, from   *)
(*                 the start of the window of its bucket on;               *)
(*   UNSWEPT:      the table the same requests would have left had no      *)
(*                 sweep ever run.                                         *)
(***************************************************************************)
VARIABLES admitted, UNSWEPT

vars == <<now, TOKEN_BUCKETS, batches, admitted, UNSWEPT>>

-----------------------------------------------------------------------------
(***************************************************************************)
(* Inputs.                                                                 *)
(***************************************************************************)
IPs == {"10.0.0.1", "10.0.0.2"}

NoIP == "none"

Whitespace == {" "}

\* "", " ", "a", " b"
Tokens == { <<>>, <<" ">>, <<"a">>, <<" ", "b">> }

SeqsUpTo(S, n) == UNION { [1..k -> S] : k \in 0..n }

\* every token list up to one token more than the handler accepts
AllInputs == SeqsUpTo(Tokens, MAX_TOKENS_PER_REQUEST + 1)

\* what the outbound call can come to (lines 64-105)
Outcomes == {"ok_field", "ok_nofield", "non200", "timeout", "transport", "malformed"}

-----------------------------------------------------------------------------
(***************************************************************************)
(* str.strip()                                                             *)
(***************************************************************************)
RECURSIVE lstrip(_)
lstrip(s) ==
    IF s = <<>> THEN s
    ELSE IF Head(s) \in Whitespace THEN lstrip(Tail(s)) ELSE s

RECURSIVE rstrip(_)
rstrip(s) ==
    IF s = <<>> THEN s
    ELSE IF s[Len(s)] \in Whitespace THEN rstrip(SubSeq(s, 1, Len(s) - 1)) ELSE s

strip(s) == rstrip(lstrip(s))

-----------------------------------------------------------------------------
(***************************************************************************)
(* The rate limiter.                                                       *)
(***************************************************************************)
\* TOKEN_BUCKETS[ip] of the defaultdict: a missing key is created
NewBucket(t) == [count |-> 0, reset_time |-> t]

BucketOf(buckets, ip, t) ==
    IF ip \in DOMAIN buckets THEN buckets[ip] ELSE NewBucket(t)

\* mutant: one bucket object shared by all the keys
PutBucket_shared(buckets, ip, bucket) ==
    [k \in DOMAIN buckets \cup {ip} |-> bucket]

PutBucket(buckets, ip, bucket) ==
    [k \in DOMAIN buckets \cup {ip} |-> IF k = ip THEN bucket ELSE buckets[k]]

\* if current_time - bucket["reset_time"] >= RATE_LIMIT_DURATION
WindowElapsed(bucket, t) == t - bucket.reset_time >= RATE_LIMIT_DURATION

\* mutant: the limit compared with > (one request too many is admitted)
OverLimit_strict(bucket) == bucket.count > MAX_REQUESTS

\* if bucket["count"] >= MAX_REQUESTS
OverLimit(bucket) == bucket.count >= MAX_REQUESTS

\* mutant: the request is counted before the limit is tested
is_rate_limited_count_first(buckets, ip, t) ==
    LET b0 == BucketOf(buckets, ip, t)
        b1 == IF WindowElapsed(b0, t) THEN [count |-> 0, reset_time |-> t] ELSE b0
    IN  [limited |-> OverLimit(b1),
         buckets |-> PutBucket(buckets, ip, [b1 EXCEPT !.count = @ + 1])]

\* mutant: the count is raised on a copy of the bucket and never stored
is_rate_limited_lost_update(buckets, ip, t) ==
    LET b0 == BucketOf(buckets, ip, t)
        b1 == IF WindowElapsed(b0, t) THEN [count |-> 0, reset_time |-> t] ELSE b0
    IN  [limited |-> OverLimit(b1), buckets |-> PutBucket(buckets, ip, b1)]

\* is_rate_limited(ip): the value returned and the table it leaves
is_rate_limited(buckets, ip, t) ==
    LET b0 == BucketOf(buckets, ip, t)
        b1 == IF WindowElapsed(b0, t) THEN [count |-> 0, reset_time |-> t] ELSE b0
    IN  IF OverLimit(b1)
        THEN [limited |-> TRUE, buckets |-> PutBucket(buckets, ip, b1)]
        ELSE [limited |-> FALSE,
              buckets |-> PutBucket(buckets, ip, [b1 EXCEPT !.count = @ + 1])]

\* current_time - bucket["reset_time"] >= RATE_LIMIT_DURATION * 2
Expired(bucket, t) == t - bucket.reset_time >= RATE_LIMIT_DURATION * 2

\* mutant: the sweep deletes nothing
cleanup_keeps_all(buckets, t) == buckets

\* mutant: the sweep's test inverted (it deletes the fresh buckets)
cleanup_inverted(buckets, t) ==
    [k \in {ip \in DOMAIN buckets : Expired(buckets[ip], t)} |-> buckets[k]]

\* mutant: the sweep deletes after one window, not two
cleanup_one_window(buckets, t) ==
    [k \in {ip \in DOMAIN buckets : ~WindowElapsed(buckets[ip], t)} |-> buckets[k]]

cleanup_token_buckets(buckets, t) ==
    [k \in {ip \in DOMAIN buckets : ~Expired(buckets[ip], t)} |-> buckets[k]]

-----------------------------------------------------------------------------
(***************************************************************************)
(* Results.  None is the empty option <<>>, a value v is <<v>>.            *)
(***************************************************************************)
None == <<>>

Valid(token) ==
    [status |-> "valid", message |-> "valid",
     access_token |-> <<"access">>, refresh_token |-> <<token>>]

Invalid(msg) ==
    [status |-> "invalid", message |-> msg,
     access_token |-> None, refresh_token |-> None]

\* an exception instance in the list gather returns
Raised ==
    [status |-> "exception", message |-> "exception",
     access_token |-> None, refresh_token |-> None]

\* mutant: any 200 response counts as valid
check_token_any200(token, outcome) ==
    LET t == strip(token) IN
    IF outcome = "client_error" THEN Raised
    ELSE IF t = <<>> THEN Invalid("empty")
    ELSE IF outcome \in {"ok_field", "ok_nofield"} THEN Valid(t)
    ELSE IF outcome = "non200" THEN Invalid("expired")
    ELSE IF outcome = "timeout" THEN Invalid("timeout")
    ELSE Invalid("failed")

\* check_token: what the task comes to, given what happened to its call
check_token(token, outcome) ==
    LET t == strip(token) IN
    IF outcome = "client_error" THEN Raised
    ELSE IF t = <<>> THEN Invalid("empty")
    ELSE IF outcome = "ok_field" THEN Valid(t)
    ELSE IF outcome \in {"ok_nofield", "non200"} THEN Invalid("expired")
    ELSE IF outcome = "timeout" THEN Invalid("timeout")
    ELSE Invalid("failed")

-----------------------------------------------------------------------------
(***************************************************************************)
(* The handler.                                                            *)
(***************************************************************************)
IdleBatch ==
    [phase |-> "idle", ip |-> NoIP, tokens |-> <<>>,
     semaphore |-> 0, tasks |-> <<>>, finished |-> <<>>, body |-> <<>>]

\* raise HTTPException(429) / HTTPException(400)
Rejected(code, ip, tokens) ==
    [phase |-> code, ip |-> ip, tokens |-> tokens,
     semaphore |-> 0, tasks |-> <<>>, finished |-> <<>>, body |-> <<>>]

NewTask(token) ==
    [token |-> strip(token), pc |-> "wait", outcome |-> "none", calls |-> 0]

\* the loop over token_request.tokens: one task per token that is not blank
RECURSIVE CreateTasks(_)
CreateTasks(tokens) ==
    IF tokens = <<>> THEN <<>>
    ELSE IF strip(Head(tokens)) = <<>> THEN CreateTasks(Tail(tokens))
    ELSE <<NewTask(Head(tokens))>> \o CreateTasks(Tail(tokens))

Scheduled(ip, tokens) ==
    [phase |-> "gather", ip |-> ip, tokens |-> tokens,
     semaphore |-> MAX_CONCURRENT_CONNECTIONS,
     tasks |-> CreateTasks(tokens), finished |-> <<>>, body |-> <<>>]

\* mutant: the tasks are created before the size of the list is checked
check_tokens_schedule_first(buckets, t, ip, tokens, sweep) ==
    LET swept == IF sweep THEN cleanup_token_buckets(buckets, t) ELSE buckets
        adm   == is_rate_limited(swept, ip, t)
    IN  [buckets |-> adm.buckets,
         batch   |-> IF adm.limited THEN Rejected("rate_limited", ip, tokens)
                     ELSE IF Len(tokens) > MAX_TOKENS_PER_REQUEST
                          THEN [Scheduled(ip, tokens) EXCEPT !.phase = "too_many"]
                          ELSE Scheduled(ip, tokens)]

\* mutant: the size of the list is checked before the rate limit
check_tokens_size_first(buckets, t, ip, tokens, sweep) ==
    LET swept == IF sweep THEN cleanup_token_buckets(buckets, t) ELSE buckets
        adm   == is_rate_limited(swept, ip, t)
    IN  IF Len(tokens) > MAX_TOKENS_PER_REQUEST
        THEN [buckets |-> swept, batch |-> Rejected("too_many", ip, tokens)]
        ELSE [buckets |-> adm.buckets,
              batch   |-> IF adm.limited THEN Rejected("rate_limited", ip, tokens)
                          ELSE Scheduled(ip, tokens)]

\* check_tokens up to its await: the table and the request it leaves
check_tokens(buckets, t, ip, tokens, sweep) ==
    LET swept == IF sweep THEN cleanup_token_buckets(buckets, t) ELSE buckets
        adm   == is_rate_limited(swept, ip, t)
    IN  [buckets |-> adm.buckets,
         batch   |-> IF adm.limited THEN Rejected("rate_limited", ip, tokens)
                     ELSE IF Len(tokens) > MAX_TOKENS_PER_REQUEST
                          THEN Rejected("too_many", ip, tokens)
                          ELSE Scheduled(ip, tokens)]

\* mutant: return_exceptions left out, a task's exception is raised by gather
GatherRaises_propagating(results, fault) ==
    fault \/ \E i \in 1..Len(results) : results[i].status = "exception"

\* mutant: the except clause swallows the fault of gather
GatherRaises_swallowed(results, fault) == FALSE

\* asyncio.gather(*tasks, return_exceptions=True): raises only on its own fault
GatherRaises(results, fault) == fault

\* the loop over results
processed_results(results) ==
    [i \in 1..Len(results) |->
        IF results[i].status = "exception" THEN Invalid("format") ELSE results[i]]

\* mutant: the await resumes when the first task is done
AllDone_first(batch) ==
    batch.tasks = <<>> \/ \E i \in 1..Len(batch.tasks) : batch.tasks[i].pc = "done"

AllDone(batch) == \A i \in 1..Len(batch.tasks) : batch.tasks[i].pc = "done"

\* mutant: the results are taken in the order in which the tasks completed
gather_done_as_completed(batch, fault) ==
    LET results == [k \in 1..Len(batch.finished) |->
                        check_token(batch.tasks[batch.finished[k]].token,
                                    batch.tasks[batch.finished[k]].outcome)]
    IN  IF GatherRaises(results, fault)
        THEN [batch EXCEPT !.phase = "error"]
        ELSE [batch EXCEPT !.phase = "returned", !.body = processed_results(results)]

\* check_tokens from the await on
gather_done(batch, fault) ==
    LET results == [i \in 1..Len(batch.tasks) |->
                        check_token(batch.tasks[i].token, batch.tasks[i].outcome)]
    IN  IF GatherRaises(results, fault)
        THEN [batch EXCEPT !.phase = "error"]
        ELSE [batch EXCEPT !.phase = "returned", !.body = processed_results(results)]

-----------------------------------------------------------------------------
(***************************************************************************)
(* Actions.                                                                *)
(***************************************************************************)
Init ==
    /\ now = 0
    /\ TOKEN_BUCKETS = << >>
    /\ batches = [b \in 1..NumSlots |-> IdleBatch]
    /\ admitted = [ip \in IPs |-> <<>>]
    /\ UNSWEPT = << >>

\* time.time() advances
Tick(tmax) ==
    /\ now < tmax
    /\ now' = now + 1
    /\ UNCHANGED <<TOKEN_BUCKETS, batches, admitted, UNSWEPT>>

\* the times of log that are not before the time since
Since(log, since) == SelectSeq(log, LAMBDA t : t >= since)

\* a request arrives; sweep is random.random() < 0.01
CheckTokens(ip, tokens, sweep, b) ==
    /\ batches[b].phase = "idle"
    /\ LET r == check_tokens(TOKEN_BUCKETS, now, ip, tokens, sweep) IN
        /\ TOKEN_BUCKETS' = r.buckets
        /\ batches' = [batches EXCEPT ![b] = r.batch]
        /\ admitted' = [admitted EXCEPT ![ip] =
                Since(IF r.batch.phase = "rate_limited" THEN @ ELSE Append(@, now),
                      BucketOf(r.buckets, ip, now).reset_time)]
    /\ UNSWEPT' = is_rate_limited(UNSWEPT, ip, now).buckets
    /\ UNCHANGED now

\* mutant: the semaphore lets one task too many in
SemaphoreFree_offbyone(value) == value >= 0

\* semaphore.locked() is false
SemaphoreFree(value) == value > 0

\* asyncio runs the tasks in creation order and wakes waiters first-in first-out
IsNextWaiter(tasks, i) == \A j \in 1..(i - 1) : tasks[j].pc # "wait"

\* check_token from `async with semaphore` to the suspension in client.post;
\* fault: httpx.AsyncClient could not be opened
task_start(batch, i, fault) ==
    IF fault
    THEN [batch EXCEPT !.tasks[i].pc = "done", !.tasks[i].outcome = "client_error",
                       !.finished = Append(@, i)]
    ELSE IF strip(batch.tasks[i].token) = <<>>
    THEN [batch EXCEPT !.tasks[i].pc = "done", !.tasks[i].outcome = "empty",
                       !.finished = Append(@, i)]
    ELSE [batch EXCEPT !.tasks[i].pc = "call", !.tasks[i].calls = @ + 1,
                       !.semaphore = @ - 1]

TaskStart(b, i, fault) ==
    /\ batches[b].phase = "gather"
    /\ i \in 1..Len(batches[b].tasks)
    /\ batches[b].tasks[i].pc = "wait"
    /\ SemaphoreFree(batches[b].semaphore)
    /\ IsNextWaiter(batches[b].tasks, i)
    /\ batches' = [batches EXCEPT ![b] = task_start(batches[b], i, fault)]
    /\ UNCHANGED <<now, TOKEN_BUCKETS, admitted, UNSWEPT>>

\* mutant: a call that timed out is issued again
task_finish_retry(batch, i, outcome) ==
    IF outcome = "timeout"
    THEN [batch EXCEPT !.tasks[i].calls = @ + 1]
    ELSE [batch EXCEPT !.tasks[i].pc = "done", !.tasks[i].outcome = outcome,
                       !.semaphore = @ + 1, !.finished = Append(@, i)]

\* mutant: a call that timed out does not give its permit back
task_finish_leak(batch, i, outcome) ==
    [batch EXCEPT !.tasks[i].pc = "done", !.tasks[i].outcome = outcome,
                  !.semaphore = IF outcome = "timeout" THEN @ ELSE @ + 1,
                  !.finished = Append(@, i)]

\* mutant: a call that timed out cancels the tasks that are not done
task_finish_cancel_siblings(batch, i, outcome) ==
    [batch EXCEPT
        !.tasks = [j \in 1..Len(@) |->
                    IF j = i THEN [@[j] EXCEPT !.pc = "done", !.outcome = outcome]
                    ELSE IF outcome = "timeout" /\ @[j].pc # "done"
                         THEN [@[j] EXCEPT !.pc = "done", !.outcome = "transport"]
                         ELSE @[j]],
        !.semaphore = @ + 1, !.finished = Append(@, i)]

\* the call is over: the task builds its result and leaves both `async with`
task_finish(batch, i, outcome) ==
    [batch EXCEPT !.tasks[i].pc = "done", !.tasks[i].outcome = outcome,
                  !.semaphore = @ + 1, !.finished = Append(@, i)]

TaskFinish(b, i, outcome) ==
    /\ batches[b].phase = "gather"
    /\ i \in 1..Len(batches[b].tasks)
    /\ batches[b].tasks[i].pc = "call"
    /\ batches' = [batches EXCEPT ![b] = task_finish(batches[b], i, outcome)]
    /\ UNCHANGED <<now, TOKEN_BUCKETS, admitted, UNSWEPT>>

\* the await of gather resumes
GatherDone(b, fault) ==
    /\ batches[b].phase = "gather"
    /\ AllDone(batches[b])
    /\ batches' = [batches EXCEPT ![b] = gather_done(batches[b], fault)]
    /\ UNCHANGED <<now, TOKEN_BUCKETS, admitted, UNSWEPT>>

\* the response (the list, or the HTTPException) is sent; the request is over
Respond(b) ==
    /\ batches[b].phase \in {"rate_limited", "too_many", "returned", "error"}
    /\ batches' = [batches EXCEPT ![b] = IdleBatch]
    /\ UNCHANGED <<now, TOKEN_BUCKETS, admitted, UNSWEPT>>

-----------------------------------------------------------------------------
(***************************************************************************)
(* Spec: one request at a time, every input and every outcome.             *)
(***************************************************************************)
Next ==
    \/ Tick(BatchMaxTime)
    \/ \E tokens \in AllInputs, sweep \in BOOLEAN :
            CheckTokens("10.0.0.1", tokens, sweep, 1)
    \/ \E i \in 1..MAX_TOKENS_PER_REQUEST, fault \in BOOLEAN : TaskStart(1, i, fault)
    \/ \E i \in 1..MAX_TOKENS_PER_REQUEST, o \in Outcomes : TaskFinish(1, i, o)
    \/ \E fault \in BOOLEAN : GatherDone(1, fault)
    \/ Respond(1)

Spec == Init /\ [][Next]_vars

-----------------------------------------------------------------------------
(***************************************************************************)
(* AdmSpec: the rate limiter over several windows, two clients, one        *)
(* request at a time.                                                      *)
(***************************************************************************)
\* [], ["a"], and two lists one token too long: all "a", and "a" then blanks
AdmInputs ==
    { <<>>, << <<"a">> >>,
      [i \in 1..(MAX_TOKENS_PER_REQUEST + 1) |-> <<"a">>],
      [i \in 1..(MAX_TOKENS_PER_REQUEST + 1) |-> IF i = 1 THEN <<"a">> ELSE <<" ">>] }

AdmOutcomes == {"ok_field", "timeout"}

SweepingRequest == \E ip \in IPs, tokens \in AdmInputs : CheckTokens(ip, tokens, TRUE, 1)

AdmNext ==
    \/ Tick(AdmMaxTime)
    \/ \E ip \in IPs, tokens \in AdmInputs : CheckTokens(ip, tokens, FALSE, 1)
    \/ SweepingRequest
    \/ \E fault \in BOOLEAN : TaskStart(1, 1, fault)
    \/ \E o \in AdmOutcomes : TaskFinish(1, 1, o)
    \/ \E fault \in BOOLEAN : GatherDone(1, fault)
    \/ Respond(1)

AdmSpec == Init /\ [][AdmNext]_vars

(***************************************************************************)
(* LiveSpec: AdmSpec where every call ends (it has a timeout), the event   *)
(* loop runs every task that can run, every response is sent, and          *)
(* requests whose random draw triggers the sweep keep arriving.            *)
(***************************************************************************)
LiveSpec ==
    /\ AdmSpec
    /\ WF_vars(\E fault \in BOOLEAN : TaskStart(1, 1, fault))
    /\ WF_vars(\E o \in AdmOutcomes : TaskFinish(1, 1, o))
    /\ WF_vars(\E fault \in BOOLEAN : GatherDone(1, fault))
    /\ WF_vars(Respond(1))
    /\ SF_vars(SweepingRequest)

(***************************************************************************)
(* ConcSpec: several requests executing at once.                           *)
(***************************************************************************)
\* ["a", " b"]
ConcInputs == { << <<"a">>, <<" ", "b">> >> }

ConcOutcomes == {"timeout"}

ConcNext ==
    \/ Tick(ConcMaxTime)
    \/ \E ip \in IPs, tokens \in ConcInputs, sweep \in BOOLEAN, b \in 1..NumSlots :
            CheckTokens(ip, tokens, sweep, b)
    \/ \E b \in 1..NumSlots, i \in 1..MAX_TOKENS_PER_REQUEST : TaskStart(b, i, FALSE)
    \/ \E b \in 1..NumSlots, i \in 1..MAX_TOKENS_PER_REQUEST, o \in ConcOutcomes :
            TaskFinish(b, i, o)
    \/ \E b \in 1..NumSlots : GatherDone(b, FALSE)
    \/ \E b \in 1..NumSlots : Respond(b)

ConcSpec == Init /\ [][ConcNext]_vars

(***************************************************************************)
(* GateSpec: one request at a time whose units outnumber the permits of    *)
(* the semaphore, where every call ends (it has a timeout) and the event   *)
(* loop runs every task that can run.                                      *)
(***************************************************************************)
\* ["a"] and ["a", ..., "a"], as long as a list may be
GateInputs == { << <<"a">> >>, [i \in 1..MAX_TOKENS_PER_REQUEST |-> <<"a">>] }

GateOutcomes == {"ok_field", "timeout"}

GateStart == \E i \in 1..MAX_TOKENS_PER_REQUEST, fault \in BOOLEAN : TaskStart(1, i, fault)

GateFinish == \E i \in 1..MAX_TOKENS_PER_REQUEST, o \in GateOutcomes : TaskFinish(1, i, o)

GateNext ==
    \/ Tick(BatchMaxTime)
    \/ \E tokens \in GateInputs, sweep \in BOOLEAN :
            CheckTokens("10.0.0.1", tokens, sweep, 1)
    \/ GateStart
    \/ GateFinish
    \/ \E fault \in BOOLEAN : GatherDone(1, fault)
    \/ Respond(1)

GateSpec ==
    /\ Init /\ [][GateNext]_vars
    /\ WF_vars(GateStart)
    /\ WF_vars(GateFinish)

-----------------------------------------------------------------------------
(***************************************************************************)
(* Definitions the properties share.                                       *)
(***************************************************************************)
Slots == 1..NumSlots

Blank(token) == strip(token) = <<>>

\* the position in tasks of the unit scheduled for tokens[i]
TaskIndex(tokens, i) == Cardinality({j \in 1..i : ~Blank(tokens[j])})

\* the result the response owes to tokens[i]
ResultFor(batch, i) ==
    IF Blank(batch.tokens[i]) THEN Invalid("empty")
    ELSE LET t == batch.tasks[TaskIndex(batch.tokens, i)]
             r == check_token(t.token, t.outcome)
         IN  IF r.status = "exception" THEN Invalid("format") ELSE r

\* outbound calls of the batch that are in flight
InFlight(batch) == Cardinality({i \in 1..Len(batch.tasks) : batch.tasks[i].pc = "call"})

RECURSIVE SumInFlight(_)
SumInFlight(n) == IF n = 0 THEN 0 ELSE InFlight(batches[n]) + SumInFlight(n - 1)

RECURSIVE SumCalls(_)
SumCalls(tasks) == IF tasks = <<>> THEN 0 ELSE Head(tasks).calls + SumCalls(Tail(tasks))

RejectedPhases == {"rate_limited", "too_many"}

\* the positions of the tokens that are not blank
NonBlank(tokens) == {i \in 1..Len(tokens) : ~Blank(tokens[i])}

\* the sweep would delete the bucket of ip
Stale(ip) == ip \in DOMAIN TOKEN_BUCKETS /\ Expired(TOKEN_BUCKETS[ip], now)

-----------------------------------------------------------------------------
(***************************************************************************)
(* C1: the list check_tokens returns is as long as the token list it was   *)
(* given, and its entry i is the result of token i (a blank token's being  *)
(* the 'empty' result), whatever the order in which the calls completed.   *)
(* The handler skips blank tokens, so the list is shorter and shifted.     *)
(***************************************************************************)
C1_SameLengthSameOrder ==
    \A b \in Slots :
        batches[b].phase = "returned" =>
            /\ Len(batches[b].body) = Len(batches[b].tokens)
            /\ \A i \in 1..Len(batches[b].tokens) :
                    batches[b].body[i] = ResultFor(batches[b], i)

(***************************************************************************)
(* C2: every blank token of an accepted batch has the invalid 'empty'      *)
(* result at its position in the returned list, and the batch issues no    *)
(* call for it (no more calls than it has tokens that are not blank).      *)
(***************************************************************************)
C2_BlankTokenReported ==
    \A b \in Slots :
        batches[b].phase = "returned" =>
            /\ \A i \in 1..Len(batches[b].tokens) :
                    Blank(batches[b].tokens[i]) =>
                        /\ i <= Len(batches[b].body)
                        /\ batches[b].body[i] = Invalid("empty")
            /\ SumCalls(batches[b].tasks)
                    <= Cardinality({i \in 1..Len(batches[b].tokens) :
                                        ~Blank(batches[b].tokens[i])})

(***************************************************************************)
(* C3: a request of a client whose bucket has counted MAX_REQUESTS         *)
(* admissions in a window that has not elapsed is rejected; a request of a *)
(* client whose window has elapsed (now - reset_time >=                    *)
(* RATE_LIMIT_DURATION) is admitted, and leaves the bucket with the window *)
(* restarted at now and this one admission counted.                        *)
(***************************************************************************)
C3_WindowLimit ==
    [][\A ip \in IPs, tokens \in AdmInputs, sweep \in BOOLEAN :
        (CheckTokens(ip, tokens, sweep, 1) /\ ip \in DOMAIN TOKEN_BUCKETS) =>
            /\ (/\ TOKEN_BUCKETS[ip].count = MAX_REQUESTS
                /\ now - TOKEN_BUCKETS[ip].reset_time < RATE_LIMIT_DURATION)
                    => batches'[1].phase = "rate_limited"
            /\ (now - TOKEN_BUCKETS[ip].reset_time >= RATE_LIMIT_DURATION)
                    => /\ batches'[1].phase # "rate_limited"
                       /\ TOKEN_BUCKETS'[ip] = [count |-> 1, reset_time |-> now]
      ]_vars

\* a request was rejected in the window in which MAX_REQUESTS were admitted
C3_Witness ==
    \E ip \in IPs :
        /\ batches[1].phase = "rate_limited"
        /\ batches[1].ip = ip
        /\ TOKEN_BUCKETS[ip].count = MAX_REQUESTS
        /\ now - TOKEN_BUCKETS[ip].reset_time < RATE_LIMIT_DURATION
        /\ TOKEN_BUCKETS[ip].reset_time >= RATE_LIMIT_DURATION

(***************************************************************************)
(* C4: no batch has more than MAX_CONCURRENT_CONNECTIONS of its calls in   *)
(* flight at once.                                                         *)
(***************************************************************************)
C4_BatchCeiling ==
    \A b \in Slots : InFlight(batches[b]) <= MAX_CONCURRENT_CONNECTIONS

\* more units than the ceiling: as many calls in flight as it allows, one waits
C4_Witness ==
    /\ Len(batches[1].tasks) > MAX_CONCURRENT_CONNECTIONS
    /\ InFlight(batches[1]) = MAX_CONCURRENT_CONNECTIONS
    /\ \E i \in 1..Len(batches[1].tasks) : batches[1].tasks[i].pc = "wait"

(***************************************************************************)
(* C5: the calls in flight of all the requests executing at once are never *)
(* more than MAX_CONCURRENT_CONNECTIONS.  Every request creates its own    *)
(* semaphore, so the sum is not bounded by it.                             *)
(***************************************************************************)
C5_GlobalCeiling == SumInFlight(NumSlots) <= MAX_CONCURRENT_CONNECTIONS

(***************************************************************************)
(* C6: when gather itself does not fault, the request returns a list with  *)
(* one entry per scheduled unit, each 'valid' or 'invalid', and an entry   *)
(* is 'valid' exactly when its own call came back 200 with the             *)
(* access_token field; what happened to the other units does not matter.   *)
(***************************************************************************)
C6_ValidIffOkWithField ==
    [][\A b \in Slots :
        GatherDone(b, FALSE) =>
            /\ batches'[b].phase = "returned"
            /\ Len(batches'[b].body) = Len(batches[b].tasks)
            /\ \A i \in 1..Len(batches[b].tasks) :
                    /\ batches'[b].body[i].status \in {"valid", "invalid"}
                    /\ batches'[b].body[i].status = "valid"
                            <=> batches[b].tasks[i].outcome = "ok_field"
      ]_vars

\* a returned list with a valid entry beside entries of calls that failed
C6_Witness ==
    /\ batches[1].phase = "returned"
    /\ \E i, j, k \in 1..Len(batches[1].tasks) :
            /\ batches[1].tasks[i].outcome = "ok_field"
            /\ batches[1].body[i].status = "valid"
            /\ batches[1].tasks[j].outcome = "ok_nofield"
            /\ batches[1].body[j].status = "invalid"
            /\ batches[1].tasks[k].outcome \in {"timeout", "transport", "malformed",
                                                "non200", "client_error"}
            /\ batches[1].body[k].status = "invalid"

(***************************************************************************)
(* C7: a request answered 429 or 400 has no task and no call, and a token  *)
(* list longer than MAX_TOKENS_PER_REQUEST is never scheduled.             *)
(***************************************************************************)
C7_RejectedSkipsValidator ==
    \A b \in Slots :
        /\ batches[b].phase \in RejectedPhases =>
                /\ batches[b].tasks = <<>>
                /\ SumCalls(batches[b].tasks) = 0
        /\ Len(batches[b].tokens) > MAX_TOKENS_PER_REQUEST =>
                batches[b].phase \in RejectedPhases

\* a list too long, holding tokens that would have been scheduled, was rejected
C7_Witness ==
    /\ batches[1].phase = "too_many"
    /\ \E i \in 1..Len(batches[1].tokens) : ~Blank(batches[1].tokens[i])

(***************************************************************************)
(* C8: a bucket whose reset_time is 2 * RATE_LIMIT_DURATION or more in the *)
(* past stops being so only by being deleted or by a request of its own    *)
(* client, and it does not stay so for ever: a bucket left idle is         *)
(* eventually deleted.                                                     *)
(***************************************************************************)
C8_StaleBucketRemoved ==
    /\ \A ip \in IPs : Stale(ip) ~> ~Stale(ip)
    /\ [][\A ip \in IPs :
            (Stale(ip) /\ ~Stale(ip)') =>
                \/ ip \notin DOMAIN TOKEN_BUCKETS'
                \/ \E tokens \in AdmInputs, sweep \in BOOLEAN :
                        CheckTokens(ip, tokens, sweep, 1)]_vars

\* a stale bucket beside the bucket of a client that is active
C8_Witness ==
    \E ip, other \in IPs :
        /\ Stale(ip)
        /\ other \in DOMAIN TOKEN_BUCKETS
        /\ ~Expired(TOKEN_BUCKETS[other], now)

C10_ExactlyOneCall ==
    \A b \in Slots :
        batches[b].phase \in {"returned", "error"} =>
            /\ Len(batches[b].tasks) = Cardinality(NonBlank(batches[b].tokens))
            /\ \A i \in 1..Len(batches[b].tasks) : batches[b].tasks[i].calls = 1

(***************************************************************************)
(* C10 as amended: a request has one unit per token that is not blank; no  *)
(* unit ever issues more than one call; a unit that is done issued exactly *)
(* one, unless its HTTP client could not be opened, and then none.         *)
(***************************************************************************)
C10_AtMostOneCall ==
    \A b \in Slots :
        batches[b].phase \in {"gather", "returned", "error"} =>
            /\ Len(batches[b].tasks) = Cardinality(NonBlank(batches[b].tokens))
            /\ \A i \in 1..Len(batches[b].tasks) :
                    /\ batches[b].tasks[i].calls <= 1
                    /\ batches[b].tasks[i].pc = "done" =>
                            batches[b].tasks[i].calls =
                                IF batches[b].tasks[i].outcome = "client_error"
                                THEN 0 ELSE 1

\* a finished request: one unit timed out, one was rejected, one never called
C10_Witness ==
    /\ batches[1].phase = "returned"
    /\ \E i, j, k \in 1..Len(batches[1].tasks) :
            /\ batches[1].tasks[i].outcome = "timeout"
            /\ batches[1].tasks[i].calls = 1
            /\ batches[1].tasks[j].outcome = "non200"
            /\ batches[1].tasks[j].calls = 1
            /\ batches[1].tasks[k].outcome = "client_error"
            /\ batches[1].tasks[k].calls = 0

(***************************************************************************)
(* C11: a request answered 429 leaves the bucket of its client as it was   *)
(* (the window had not elapsed and the count is not raised), and no count  *)
(* is ever above MAX_REQUESTS.                                             *)
(***************************************************************************)
C11_RejectionKeepsCount ==
    /\ [](\A ip \in DOMAIN TOKEN_BUCKETS : TOKEN_BUCKETS[ip].count \in 0..MAX_REQUESTS)
    /\ [][\A ip \in IPs, tokens \in AdmInputs, sweep \in BOOLEAN :
            (CheckTokens(ip, tokens, sweep, 1) /\ batches'[1].phase = "rate_limited") =>
                /\ ip \in DOMAIN TOKEN_BUCKETS
                /\ TOKEN_BUCKETS[ip].count >= MAX_REQUESTS
                /\ TOKEN_BUCKETS'[ip] = TOKEN_BUCKETS[ip]
       ]_vars

\* a request was rejected and its client's count is still MAX_REQUESTS
C11_Witness ==
    \E ip \in IPs :
        /\ batches[1].phase = "rate_limited"
        /\ batches[1].ip = ip
        /\ TOKEN_BUCKETS[ip].count = MAX_REQUESTS
        /\ Len(admitted[ip]) = MAX_REQUESTS

(***************************************************************************)
(* C12: with requests of one client executing at once, some suspended in   *)
(* their calls, the count of every bucket is the number of requests of its *)
(* client admitted since the bucket's reset_time, and lies in              *)
(* 0..MAX_REQUESTS.                                                        *)
(***************************************************************************)
C12_CountIsAdmissions ==
    \A ip \in DOMAIN TOKEN_BUCKETS :
        /\ TOKEN_BUCKETS[ip].count
                = Len(Since(admitted[ip], TOKEN_BUCKETS[ip].reset_time))
        /\ TOKEN_BUCKETS[ip].count \in 0..MAX_REQUESTS

\* two admitted requests of one client, both with a call in flight
C12_Witness ==
    \E ip \in IPs :
        /\ \A b \in Slots :
                /\ batches[b].phase = "gather"
                /\ batches[b].ip = ip
                /\ InFlight(batches[b]) > 0
        /\ TOKEN_BUCKETS[ip].count = NumSlots

(***************************************************************************)
(* C13: a request of one client leaves the bucket of every other client    *)
(* as it was (is_rate_limited deletes none either; only the sweep does),   *)
(* and is rejected exactly when its own client's bucket is full in a       *)
(* window that has not elapsed.                                            *)
(***************************************************************************)
C13_KeyedByIdentity ==
    [][\A ip \in IPs, tokens \in AdmInputs :
        /\ \A sweep \in BOOLEAN :
            CheckTokens(ip, tokens, sweep, 1) =>
                /\ \A other \in (DOMAIN TOKEN_BUCKETS') \ {ip} :
                        /\ other \in DOMAIN TOKEN_BUCKETS
                        /\ TOKEN_BUCKETS'[other] = TOKEN_BUCKETS[other]
                /\ batches'[1].phase = "rate_limited"
                        <=> /\ ip \in DOMAIN TOKEN_BUCKETS
                            /\ TOKEN_BUCKETS[ip].count >= MAX_REQUESTS
                            /\ now - TOKEN_BUCKETS[ip].reset_time < RATE_LIMIT_DURATION
        /\ CheckTokens(ip, tokens, FALSE, 1) =>
                DOMAIN TOKEN_BUCKETS \subseteq DOMAIN TOKEN_BUCKETS'
      ]_vars

\* one client is rejected while the other's bucket, not full, stands as it was
C13_Witness ==
    \E ip, other \in IPs :
        /\ batches[1].phase = "rate_limited"
        /\ batches[1].ip = ip
        /\ other # ip
        /\ other \in DOMAIN TOKEN_BUCKETS
        /\ TOKEN_BUCKETS[other].count = 1
        /\ TOKEN_BUCKETS[other].reset_time < TOKEN_BUCKETS[ip].reset_time

(***************************************************************************)
(* C14: a request that sweeps deletes, of the other clients' buckets,      *)
(* exactly those whose reset_time is 2 * RATE_LIMIT_DURATION or more in    *)
(* the past, and leaves the others as they were; its own client's bucket,  *)
(* if it was that old, is made anew.                                       *)
(***************************************************************************)
C14_SweepRemovesExactlyStale ==
    [][\A ip \in IPs, tokens \in AdmInputs :
        CheckTokens(ip, tokens, TRUE, 1) =>
            /\ \A other \in IPs \ {ip} :
                    /\ other \in DOMAIN TOKEN_BUCKETS'
                            <=> (other \in DOMAIN TOKEN_BUCKETS /\ ~Stale(other))
                    /\ other \in DOMAIN TOKEN_BUCKETS'
                            => TOKEN_BUCKETS'[other] = TOKEN_BUCKETS[other]
            /\ Stale(ip) => TOKEN_BUCKETS'[ip] = [count |-> 1, reset_time |-> now]
      ]_vars

\* a bucket was swept; the full bucket of the client still in its window stands
C14_Witness ==
    \E ip, other \in IPs :
        /\ other \in DOMAIN UNSWEPT
        /\ other \notin DOMAIN TOKEN_BUCKETS
        /\ ip \in DOMAIN TOKEN_BUCKETS
        /\ TOKEN_BUCKETS[ip].count = MAX_REQUESTS
        /\ TOKEN_BUCKETS[ip].reset_time < now

(***************************************************************************)
(* C15: the returned list holds the results of the tokens that are not     *)
(* blank in the order of those tokens in the input, whatever the order in  *)
(* which their calls completed.                                            *)
(***************************************************************************)
C15_InputOrder ==
    \A b \in Slots :
        batches[b].phase = "returned" =>
            /\ Len(batches[b].body) = Cardinality(NonBlank(batches[b].tokens))
            /\ \A i \in NonBlank(batches[b].tokens) :
                    batches[b].body[TaskIndex(batches[b].tokens, i)]
                        = ResultFor(batches[b], i)

\* the later token completed first, and its result still comes second
C15_Witness ==
    /\ batches[1].phase = "returned"
    /\ Len(batches[1].tasks) = 2
    /\ batches[1].finished = <<2, 1>>
    /\ batches[1].body[1] = Valid(<<"a">>)
    /\ batches[1].body[2] = Valid(<<"b">>)

(***************************************************************************)
(* C16: the end of one unit's call (a timeout or any other outcome), or    *)
(* the failure to open its client, changes that unit alone; in the         *)
(* returned list a unit that timed out has the 'timeout' result and every  *)
(* entry is the result of its own unit's outcome.                          *)
(***************************************************************************)
C16_TimeoutIsLocal ==
    [][\A b \in Slots, i \in 1..MAX_TOKENS_PER_REQUEST :
        /\ ((\E o \in Outcomes : TaskFinish(b, i, o)) \/ TaskStart(b, i, TRUE)) =>
                /\ batches'[b].phase = "gather"
                /\ \A j \in 1..Len(batches[b].tasks) :
                        j # i => batches'[b].tasks[j] = batches[b].tasks[j]
        /\ TaskFinish(b, i, "timeout") =>
                /\ batches'[b].tasks[i].pc = "done"
                /\ batches'[b].tasks[i].outcome = "timeout"
        /\ (GatherDone(b, FALSE) /\ i <= Len(batches[b].tasks)) =>
                /\ batches[b].tasks[i].outcome = "timeout"
                        => batches'[b].body[i] = Invalid("timeout")
                /\ batches[b].tasks[i].outcome = "ok_field"
                        => batches'[b].body[i] = Valid(batches[b].tasks[i].token)
      ]_vars

\* the first call to end timed out; a sibling then in flight came back valid
C16_Witness ==
    /\ batches[1].phase = "returned"
    /\ Len(batches[1].tasks) >= 2
    /\ batches[1].tasks[batches[1].finished[1]].outcome = "timeout"
    /\ batches[1].body[batches[1].finished[1]] = Invalid("timeout")
    /\ batches[1].tasks[batches[1].finished[2]].outcome = "ok_field"
    /\ batches[1].tasks[batches[1].finished[2]].calls = 1
    /\ batches[1].body[batches[1].finished[2]].status = "valid"

(***************************************************************************)
(* C17: a unit waiting for a permit of the semaphore eventually gets one   *)
(* (and issues its call, or fails to open its client), and no unit gets    *)
(* its permit while a unit created before it still waits.                  *)
(***************************************************************************)
Waiting(b, i) ==
    /\ batches[b].phase = "gather"
    /\ i <= Len(batches[b].tasks)
    /\ batches[b].tasks[i].pc = "wait"

C18_SweepIsTransparent ==
    /\ [](\A ip \in DOMAIN TOKEN_BUCKETS :
            ip \in DOMAIN UNSWEPT /\ UNSWEPT[ip] = TOKEN_BUCKETS[ip])
    /\ [][\A ip \in IPs, tokens \in AdmInputs, sweep \in BOOLEAN :
            CheckTokens(ip, tokens, sweep, 1) =>
                (batches'[1].phase = "rate_limited"
                    <=> is_rate_limited(UNSWEPT, ip, now).limited)
       ]_vars

\* a client whose bucket was swept came back and filled its new bucket
C18_Witness ==
    \E ip, other \in IPs :
        /\ other \in DOMAIN UNSWEPT
        /\ other \notin DOMAIN TOKEN_BUCKETS
        /\ batches[1].phase = "rate_limited"
        /\ batches[1].ip = ip
        /\ TOKEN_BUCKETS[ip].reset_time >= 2 * RATE_LIMIT_DURATION

(***************************************************************************)
(* C19 as stated: a list too long is answered 429 or 400, the rate limit   *)
(* first, and a request answered 400 leaves the count of its client's      *)
(* bucket one higher than it was before the request (0 if it had none).    *)
(***************************************************************************)
CountOf(buckets, ip) == IF ip \in DOMAIN buckets THEN buckets[ip].count ELSE 0

C19_CountOneHigher ==
    [][\A ip \in IPs, tokens \in AdmInputs, sweep \in BOOLEAN :
        (CheckTokens(ip, tokens, sweep, 1) /\ Len(tokens) > MAX_TOKENS_PER_REQUEST) =>
            /\ batches'[1].phase \in {"rate_limited", "too_many"}
            /\ batches'[1].phase = "too_many" =>
                    CountOf(TOKEN_BUCKETS', ip) = CountOf(TOKEN_BUCKETS, ip) + 1
      ]_vars

(***************************************************************************)
(* C19 as amended: the rate limit is checked before the size of the list,  *)
(* which counts the blank tokens too.  A list too long of a client over    *)
(* its limit is answered 429; otherwise it is answered 400 and has been    *)
(* counted: the count is one higher than the count the limiter started     *)
(* from, which is 0 when the client had no bucket or its window had        *)
(* elapsed.                                                                *)
(***************************************************************************)
C19_TooLongIsCounted ==
    [][\A ip \in IPs, tokens \in AdmInputs, sweep \in BOOLEAN :
        (CheckTokens(ip, tokens, sweep, 1) /\ Len(tokens) > MAX_TOKENS_PER_REQUEST) =>
            LET open == /\ ip \in DOMAIN TOKEN_BUCKETS
                        /\ now - TOKEN_BUCKETS[ip].reset_time < RATE_LIMIT_DURATION
                from == IF open THEN TOKEN_BUCKETS[ip].count ELSE 0
            IN  IF from >= MAX_REQUESTS
                THEN batches'[1].phase = "rate_limited"
                ELSE /\ batches'[1].phase = "too_many"
                     /\ CountOf(TOKEN_BUCKETS', ip) = from + 1
      ]_vars

\* a list too long only by its blank tokens was answered 400 and took the
\* last admission of its client's window
C19_Witness ==
    \E ip \in IPs :
        /\ batches[1].phase = "too_many"
        /\ batches[1].ip = ip
        /\ Cardinality(NonBlank(batches[1].tokens)) <= MAX_TOKENS_PER_REQUEST
        /\ TOKEN_BUCKETS[ip].count = MAX_REQUESTS
        /\ admitted[ip][MAX_REQUESTS] = now

(***************************************************************************)
(* C20: when the list is returned every unit of the request is done, none  *)
(* of its calls is in flight, and its semaphore has all its permits back.  *)
(***************************************************************************)
C20_JoinAndRelease ==
    \A b \in Slots :
        batches[b].phase = "returned" =>
            /\ \A i \in 1..Len(batches[b].tasks) : batches[b].tasks[i].pc = "done"
            /\ Len(batches[b].finished) = Len(batches[b].tasks)
            /\ InFlight(batches[b]) = 0
            /\ batches[b].semaphore = MAX_CONCURRENT_CONNECTIONS

\* a returned request whose units ended in a success, a timeout and an exception
C20_Witness ==
    /\ batches[1].phase = "returned"
    /\ \E i, j, k \in 1..Len(batches[1].tasks) :
            /\ batches[1].tasks[i].outcome = "ok_field"
            /\ batches[1].tasks[j].outcome = "timeout"
            /\ batches[1].tasks[k].outcome = "client_error"
    /\ batches[1].semaphore = MAX_CONCURRENT_CONNECTIONS

=============================================================================
